---------------------------- MODULE Spec2Model ----------------------------
(***************************************************************************)
(* A model of the rule dependency / conflict resolution engine of the      *)
(* ai-rules CLI (core/dependency-resolver): resolveDependencies,           *)
(* detectConflicts, resolveAllDependencies, getSupersedingRules,           *)
(* removeSupersededRules, createRuleSelections, validateRuleAvailability,  *)
(* resolveComprehensive, and the `generate` command that consumes the      *)
(* resolution.                                                             *)
(*                                                                         *)
(* The catalog (the value loadAllRules resolves to) and the list of        *)
(* available ids (the value getAvailableRuleIds resolves to) are inputs:   *)
(* the resolver's tests supply them independently of each other, so the    *)
(* model does too.                                                         *)
(***************************************************************************)
EXTENDS Naturals, Sequences, FiniteSets

\* ------------------------------------------------------------------ bounds

\* The rule identifiers of the model (opaque strings in the program).
Ids == {"a", "b", "c"}

\* The largest number of relationship entries (over all `requires`,
\* `conflicts` and `supersedes` lists together) of a catalog that declares
\* all three kinds of list.
MaxEdges == 2

\* The largest number of entries of a catalog that declares `requires` lists
\* only (3: a cycle through three rules).
MaxRequires == 3

\* The largest number of entries of a catalog that declares `conflicts`
\* lists only.
MaxConflicts == 2

\* The longest list of rule ids a caller passes.
MaxSel == 2

\* The longest list of rule ids passed where termination is checked (one
\* seed reaches every cycle of the catalog's `requires` graph).
MaxSeeds == 1

\* The largest number of entries of a catalog that declares `supersedes`
\* lists only (2: a chain through three rules).
MaxSupersedes == 2

\* The longest list of rule ids passed to the supersession functions.
MaxIds == 3

\* The largest number of categories the user selects in the wizard.
MaxCategories == 2

\* The number of loadAllRules calls that can be in flight together.
MaxLoaders == 2

\* The largest number of loadAllRules calls made in one behaviour.
MaxLoads == 3

\* The largest number of relationship entries of the catalog that two calls
\* in flight resolve against.
MaxCallEdges == 1

\* The longest selection of the call that runs beside a repeated call.
MaxOther == 1

\* The largest number of switches between two resolveComprehensive calls in
\* flight (3: one call is interrupted and resumed, and interrupted again).
MaxYields == 3

\* The repository paths of the configurations in use (the cache keys).
Paths == {"rules-a", "rules-b"}

\* ------------------------------------------------------- sequence helpers

\* Array.prototype.includes
Includes(seq, x) == \E i \in 1..Len(seq) : seq[i] = x

\* The set of the elements of a list.
Range(seq) == {seq[i] : i \in 1..Len(seq)}

\* Array.from(new Set(seq)): the elements in order of first insertion.
RECURSIVE ArrayFromSet(_)
ArrayFromSet(seq) ==
  IF seq = <<>> THEN <<>>
  ELSE LET front == ArrayFromSet(SubSeq(seq, 1, Len(seq) - 1))
           last  == seq[Len(seq)]
       IN IF Includes(front, last) THEN front ELSE Append(front, last)

\* Array.prototype.join(", ") as the list of the pieces it concatenates.
RECURSIVE Join(_)
Join(seq) ==
  IF seq = <<>> THEN <<>>
  ELSE IF Len(seq) = 1 THEN <<seq[1]>>
  ELSE <<seq[1], ", ">> \o Join(Tail(seq))

\* All lists over S of length at most n.
RECURSIVE SeqsUpTo(_, _)
SeqsUpTo(S, n) ==
  IF n = 0 THEN {<<>>}
  ELSE LET shorter == SeqsUpTo(S, n - 1)
       IN shorter \cup {Append(s, x) : s \in shorter, x \in S}

\* ---------------------------------------------------------------- catalog

\* The relationship lists of RuleMetadata the resolver reads.
Kinds == {"requires", "conflicts", "supersedes"}

\* A catalog over the ids D in which no rule declares anything (an absent
\* list and an empty one behave alike in every function of the resolver).
EmptyCatalog(D) ==
  [id \in D |-> [requires |-> <<>>, conflicts |-> <<>>, supersedes |-> <<>>]]

\* The catalogs over the ids D with at most n entries in the lists `kinds`,
\* each list free of repeated ids, in every declared order.
RECURSIVE CatalogsOver(_, _, _)
CatalogsOver(D, kinds, n) ==
  IF n = 0 THEN {EmptyCatalog(D)}
  ELSE LET fewer == CatalogsOver(D, kinds, n - 1)
       IN fewer \cup
          UNION {{[c EXCEPT ![from][k] = Append(@, to)] :
                    to \in {t \in Ids : ~Includes(c[from][k], t)}} :
                 c \in fewer, from \in D, k \in kinds}

Catalogs(kinds, n) == UNION {CatalogsOver(D, kinds, n) : D \in SUBSET Ids}

Selections(n) == SeqsUpTo(Ids, n)


\* ------------------------------------------------------------------ state

VARIABLES
  entry,              \* the exported function (or command) the caller invoked
  allRules,           \* what loadAllRules resolves to: id -> relationship lists
  availableRuleIds,   \* what getAvailableRuleIds resolves to
  ruleIdsArg,         \* the list of rule ids the caller passed
  pc,                 \* the function whose body runs next
  call,               \* 1: the caller's call; 2: resolveDependencies run again
  selectedRuleIds,    \* the argument of resolveDependencies / detectConflicts
  processed,          \* resolveDependencies: const processed = new Set()
  toProcess,          \* resolveDependencies: the worklist
  dependencies,       \* resolveDependencies: the DependencyInfo[] built
  conflicts,          \* what detectConflicts returned
  finalRuleIds,       \* resolveAllDependencies: Array.from(allRuleIds)
  availability,       \* what validateRuleAvailability returned
  superseding,        \* what getSupersedingRules returned
  finalIds,           \* what removeSupersededRules returned
  finalSelections,    \* what createRuleSelections returned
  warnings,           \* resolveComprehensive: const warnings: string[]
  generateRuleFilesArgs,  \* the selections of each generateRuleFiles call
  generateIndexFileArgs,  \* the selections of each generateIndexFile call
  exitCode,           \* "running", or the status the command exited with
  minify,             \* runWizard: what createMinificationPrompt would answer
  wizardLog,          \* runWizard: the prompts and collaborators awaited so far,
                      \* a refusal or empty answer noted after its prompt
  categoriesLeft,     \* runWizard: the selected categories not yet asked about
  wizardRuleIds,      \* runWizard: const selectedRuleIds: string[]
  normalizeOptions,   \* runWizard: let normalizeOptions
  localSelections,    \* runWizard: let finalSelections
  answers,            \* runWizard: the answers of the conflict prompts so far
  generateRuleFilesOptions,  \* the normalizeOptions of each generateRuleFiles call
  wizardResult,       \* "running", or what runWizard returned
  rulesCache,         \* rule-loader: const rulesCache = new Map(), path -> rules
  loader,             \* each loadAllRules call in flight: where it is, its path
  reads,              \* the successful readdir calls per path since the last
                      \* clearRulesCache
  loadAllRulesCalls,  \* the loadAllRules calls made so far
  current,            \* which resolveComprehensive call the locals above belong to
  suspended,          \* the locals of the call waiting at an await, if any
  returned,           \* what each finished resolveComprehensive call returned
  yields              \* how often the event loop switched between the two calls

wizardVars == <<minify, wizardLog, categoriesLeft, wizardRuleIds,
                normalizeOptions, localSelections, answers,
                generateRuleFilesOptions, wizardResult>>

cacheVars == <<rulesCache, loader, reads, loadAllRulesCalls>>

callVars == <<current, suspended, returned, yields>>

vars == <<entry, allRules, availableRuleIds, ruleIdsArg, pc, call,
          selectedRuleIds, processed, toProcess, dependencies, conflicts,
          finalRuleIds, availability, superseding, finalIds, finalSelections,
          warnings, generateRuleFilesArgs, generateIndexFileArgs, exitCode,
          wizardVars, cacheVars, callVars>>

inputs == <<entry, allRules, availableRuleIds, ruleIdsArg>>

\* allRules.find((r) => r.metadata.id === id) finds a record.
HasRule(id) == id \in DOMAIN allRules

\* rule x has a record whose list `kind` holds y
\* (rule?.metadata[kind]?.includes(y)).
Declares(x, kind, y) == HasRule(x) /\ Includes(allRules[x][kind], y)

\* ---------------------------------------------------- resolveDependencies

\* The requiredId branch that pushes to missingDependencies.
IsMissingDependency(requiredId) == requiredId \notin availableRuleIds

\* Mutant: the branch without `!selectedRuleIds.includes(requiredId)`.
IsAddedDependency_NoSelectedCheck(requiredId, done) ==
  /\ requiredId \in availableRuleIds
  /\ requiredId \notin done

\* Mutant: the second branch is an `if` of its own, not the `else` of the
\* availability test.
IsAddedDependency_NoAvailableCheck(requiredId, done) ==
  /\ requiredId \notin done
  /\ ~Includes(selectedRuleIds, requiredId)

\* The requiredId branch that pushes to addedDependencies and to toProcess;
\* `done` is the processed set, which already holds the current id.
IsAddedDependency(requiredId, done) ==
  /\ requiredId \in availableRuleIds
  /\ requiredId \notin done
  /\ ~Includes(selectedRuleIds, requiredId)

\* missingDependencies of one pass over rule.metadata.requires.
MissingDependencies(ruleId) ==
  SelectSeq(allRules[ruleId].requires, IsMissingDependency)

\* addedDependencies of one pass over rule.metadata.requires.
AddedDependencies(ruleId, done) ==
  SelectSeq(allRules[ruleId].requires,
            LAMBDA requiredId : IsAddedDependency(requiredId, done))

\* Mutant: the head is read (toProcess[0]) and never removed.
Shifted_NoShift(queue) == queue

\* toProcess after toProcess.shift()
Shifted(queue) == Tail(queue)

\* Mutant: the added ids are recorded and never pushed to the worklist.
Pushed_Dropped(queue, addedDependencies) == queue

\* Mutant: the added ids go to the front of the worklist (a stack).
Pushed_Front(queue, addedDependencies) == addedDependencies \o queue

\* toProcess after every toProcess.push(requiredId) of one pass.
Pushed(queue, addedDependencies) == queue \o addedDependencies

\* Mutant: the entry is pushed for every rule with a record, without the
\* test of the two lengths.
ResolveDependenciesStep_AlwaysEmits ==
  /\ pc = "resolveDependencies"
  /\ toProcess # <<>>
  /\ LET currentId == Head(toProcess)
         done      == processed \cup {currentId}
     IN IF currentId \in processed \/ ~HasRule(currentId)
        THEN /\ toProcess' = Tail(toProcess)
             /\ processed' = done
             /\ dependencies' = dependencies
        ELSE LET missingDependencies == MissingDependencies(currentId)
                 addedDependencies   == AddedDependencies(currentId, done)
             IN /\ toProcess' = Tail(toProcess) \o addedDependencies
                /\ processed' = done
                /\ dependencies' =
                     Append(dependencies,
                            [ruleId |-> currentId,
                             missingDependencies |-> missingDependencies,
                             addedDependencies |-> addedDependencies])
  /\ UNCHANGED <<inputs, wizardVars, cacheVars, callVars, pc, call, selectedRuleIds, conflicts, finalRuleIds,
                 availability, superseding, finalIds, finalSelections,
                 warnings, generateRuleFilesArgs, generateIndexFileArgs,
                 exitCode>>

\* Mutant: without `if (!rule) continue`, reading rule.metadata of an id
\* that has no record throws and the function never returns.
ResolveDependenciesStep_NoRecordGuard ==
  /\ pc = "resolveDependencies"
  /\ toProcess # <<>>
  /\ LET currentId == Head(toProcess)
         done      == processed \cup {currentId}
     IN IF currentId \in processed
        THEN /\ toProcess' = Tail(toProcess)
             /\ processed' = done
             /\ dependencies' = dependencies
        ELSE /\ currentId \in DOMAIN allRules
             /\ LET missingDependencies == MissingDependencies(currentId)
                    addedDependencies   == AddedDependencies(currentId, done)
                IN /\ toProcess' = Tail(toProcess) \o addedDependencies
                   /\ processed' = done
                   /\ dependencies' =
                        IF missingDependencies # <<>> \/ addedDependencies # <<>>
                        THEN Append(dependencies,
                                    [ruleId |-> currentId,
                                     missingDependencies |-> missingDependencies,
                                     addedDependencies |-> addedDependencies])
                        ELSE dependencies
  /\ UNCHANGED <<inputs, wizardVars, cacheVars, callVars, pc, call, selectedRuleIds, conflicts, finalRuleIds,
                 availability, superseding, finalIds, finalSelections,
                 warnings, generateRuleFilesArgs, generateIndexFileArgs,
                 exitCode>>

\* One iteration of `while (toProcess.length > 0)`.
ResolveDependenciesStep ==
  /\ pc = "resolveDependencies"
  /\ toProcess # <<>>
  /\ LET currentId == Head(toProcess)
         done      == processed \cup {currentId}
     IN IF currentId \in processed \/ ~HasRule(currentId)
        THEN /\ toProcess' = Shifted(toProcess)
             /\ processed' = done
             /\ dependencies' = dependencies
        ELSE LET missingDependencies == MissingDependencies(currentId)
                 addedDependencies   == AddedDependencies(currentId, done)
             IN /\ toProcess' = Pushed(Shifted(toProcess), addedDependencies)
                /\ processed' = done
                /\ dependencies' =
                     IF missingDependencies # <<>> \/ addedDependencies # <<>>
                     THEN Append(dependencies,
                                 [ruleId |-> currentId,
                                  missingDependencies |-> missingDependencies,
                                  addedDependencies |-> addedDependencies])
                     ELSE dependencies
  /\ UNCHANGED <<inputs, wizardVars, cacheVars, callVars, pc, call, selectedRuleIds, conflicts, finalRuleIds,
                 availability, superseding, finalIds, finalSelections,
                 warnings, generateRuleFilesArgs, generateIndexFileArgs,
                 exitCode>>

\* The loop ends and resolveDependencies returns `dependencies`, to
\* resolveAllDependencies or to the caller that called it directly.
ResolveDependenciesReturn ==
  /\ pc = "resolveDependencies"
  /\ toProcess = <<>>
  /\ pc' = IF entry = "resolveDependencies" \/ call = 2
           THEN "done" ELSE "detectConflicts"
  /\ UNCHANGED <<inputs, wizardVars, cacheVars, callVars, call, selectedRuleIds, processed, toProcess,
                 dependencies, conflicts, finalRuleIds, availability,
                 superseding, finalIds, finalSelections, warnings,
                 generateRuleFilesArgs, generateIndexFileArgs, exitCode>>

\* -------------------------------------------------------- detectConflicts

\* Mutant: the two ids of the template exchanged.
ConflictReason_Swapped(x, y) == <<"Rule '", y, "' conflicts with rule '", x, "'">>

\* `Rule '${x}' conflicts with rule '${y}'`, as the pieces of the template.
ConflictReason(x, y) == <<"Rule '", x, "' conflicts with rule '", y, "'">>

\* Mutant: rule1's own list is matched against the later ids only.
OwnConflicts_LaterOnly(selected, i) ==
  LET ruleId1 == selected[i]
      hits == SelectSeq(allRules[ruleId1].conflicts,
                        LAMBDA conflictingId :
                          \E j \in (i + 1)..Len(selected) : selected[j] = conflictingId)
  IN [k \in 1..Len(hits) |->
        [ruleId1 |-> ruleId1, ruleId2 |-> hits[k],
         reason |-> <<"Rule '", ruleId1, "' conflicts with rule '", hits[k], "'">>]]

\* The entries pushed while rule1's own `conflicts` list is scanned.
OwnConflicts(selected, i) ==
  LET ruleId1 == selected[i]
      hits == SelectSeq(allRules[ruleId1].conflicts,
                        LAMBDA conflictingId : Includes(selected, conflictingId))
  IN [k \in 1..Len(hits) |->
        [ruleId1 |-> ruleId1, ruleId2 |-> hits[k],
         reason |-> ConflictReason(ruleId1, hits[k])]]

\* Mutant: the scan for rules that list ruleId1 is left out.
LaterConflicts_None(selected, i, j) == <<>>

\* Mutant: the scan for rules that list ruleId1 visits every other index,
\* not only the later ones.
RECURSIVE OtherConflicts(_, _, _)
OtherConflicts(selected, i, j) ==
  IF j > Len(selected) THEN <<>>
  ELSE (IF j # i /\ Declares(selected[j], "conflicts", selected[i])
        THEN <<[ruleId1 |-> selected[i], ruleId2 |-> selected[j],
                reason |-> <<"Rule '", selected[j], "' conflicts with rule '",
                             selected[i], "'">>]>>
        ELSE <<>>)
       \o OtherConflicts(selected, i, j + 1)

LaterConflicts_AllOthers(selected, i, j) == OtherConflicts(selected, i, 1)

\* The entries pushed by the scan `for (let j = i + 1; ...)` from index j on.
RECURSIVE LaterConflicts(_, _, _)
LaterConflicts(selected, i, j) ==
  IF j > Len(selected) THEN <<>>
  ELSE LET ruleId1 == selected[i]
           ruleId2 == selected[j]
           hit == Declares(ruleId2, "conflicts", ruleId1)
       IN (IF hit THEN <<[ruleId1 |-> ruleId1, ruleId2 |-> ruleId2,
                          reason |-> ConflictReason(ruleId2, ruleId1)]>>
           ELSE <<>>)
          \o LaterConflicts(selected, i, j + 1)

\* The entries pushed by the iterations i, i + 1, ... of the outer loop.
RECURSIVE ConflictsFrom(_, _)
ConflictsFrom(selected, i) ==
  IF i > Len(selected) THEN <<>>
  ELSE (IF HasRule(selected[i])
        THEN OwnConflicts(selected, i) \o LaterConflicts(selected, i, i + 1)
        ELSE <<>>)
       \o ConflictsFrom(selected, i + 1)

\* Mutant: one entry per unordered pair of ids, the first found.
RECURSIVE OnePerPair(_)
OnePerPair(found) ==
  IF found = <<>> THEN <<>>
  ELSE LET front == OnePerPair(SubSeq(found, 1, Len(found) - 1))
           last  == found[Len(found)]
       IN IF \E k \in 1..Len(front) :
               {front[k].ruleId1, front[k].ruleId2} = {last.ruleId1, last.ruleId2}
          THEN front ELSE Append(front, last)

DetectConflicts_OnePerPair(selected) == OnePerPair(ConflictsFrom(selected, 1))

\* detectConflicts(selectedRuleIds, config)
DetectConflicts(selected) == ConflictsFrom(selected, 1)

\* Mutant: detectConflicts is given the selection with every added
\* dependency appended (the dependency-expanded list).
RECURSIVE WithAdded(_, _)
WithAdded(selected, deps) ==
  IF deps = <<>> THEN selected
  ELSE WithAdded(selected \o Head(deps).addedDependencies, Tail(deps))

DetectConflictsCall_OnExpanded ==
  /\ pc = "detectConflicts"
  /\ conflicts' = DetectConflicts(WithAdded(selectedRuleIds, dependencies))
  /\ pc' = IF entry = "detectConflicts" THEN "done" ELSE "resolveAllDependencies"
  /\ UNCHANGED <<inputs, wizardVars, cacheVars, callVars, call, selectedRuleIds, processed, toProcess,
                 dependencies, finalRuleIds, availability, superseding,
                 finalIds, finalSelections, warnings, generateRuleFilesArgs,
                 generateIndexFileArgs, exitCode>>

\* resolveAllDependencies (or a caller directly) calls detectConflicts on the
\* list it was given.
DetectConflictsCall ==
  /\ pc = "detectConflicts"
  /\ conflicts' = DetectConflicts(selectedRuleIds)
  /\ pc' = IF entry = "detectConflicts" THEN "done" ELSE "resolveAllDependencies"
  /\ UNCHANGED <<inputs, wizardVars, cacheVars, callVars, call, selectedRuleIds, processed, toProcess,
                 dependencies, finalRuleIds, availability, superseding,
                 finalIds, finalSelections, warnings, generateRuleFilesArgs,
                 generateIndexFileArgs, exitCode>>

\* ------------------------------------------------- resolveAllDependencies

\* The addedDependencies of all entries, in order.
RECURSIVE AllAdded(_)
AllAdded(deps) ==
  IF deps = <<>> THEN <<>>
  ELSE Head(deps).addedDependencies \o AllAdded(Tail(deps))

\* Mutant: the ids are concatenated, with no Set in between.
CollectRuleIds_NoSet(selected, deps) == selected \o AllAdded(deps)

\* Mutant: the added ids are never put into the set.
CollectRuleIds_SelectedOnly(selected, deps) == ArrayFromSet(selected)

\* Array.from(allRuleIds) after the selection and every added id went in.
CollectRuleIds(selected, deps) == ArrayFromSet(selected \o AllAdded(deps))

\* resolveAllDependencies after its two awaits: collect and return.
ResolveAllDependenciesReturn ==
  /\ pc = "resolveAllDependencies"
  /\ finalRuleIds' = CollectRuleIds(selectedRuleIds, dependencies)
  /\ pc' = IF entry = "resolveAllDependencies" THEN "done"
           ELSE "resolveComprehensive"
  /\ UNCHANGED <<inputs, wizardVars, cacheVars, callVars, call, selectedRuleIds, processed, toProcess,
                 dependencies, conflicts, availability, superseding, finalIds,
                 finalSelections, warnings, generateRuleFilesArgs,
                 generateIndexFileArgs, exitCode>>

\* A caller runs resolveDependencies again, on the finalRuleIds it was given.
ResolveDependenciesAgain ==
  /\ pc = "done"
  /\ entry = "resolveAllDependencies"
  /\ call = 1
  /\ call' = 2
  /\ selectedRuleIds' = finalRuleIds
  /\ toProcess' = finalRuleIds
  /\ processed' = {}
  /\ dependencies' = <<>>
  /\ pc' = "resolveDependencies"
  /\ UNCHANGED <<inputs, wizardVars, cacheVars, callVars, conflicts, finalRuleIds, availability, superseding,
                 finalIds, finalSelections, warnings, generateRuleFilesArgs,
                 generateIndexFileArgs, exitCode>>

\* ------------------------------------------- supersession, final selection

\* Mutant: the test `ruleIds.includes(supersededId)` is left out.
RECURSIVE SupersedingFrom_NoPresenceCheck(_, _)
SupersedingFrom_NoPresenceCheck(ruleIds, i) ==
  IF i > Len(ruleIds) THEN <<>>
  ELSE LET ruleId == ruleIds[i]
           hits == IF HasRule(ruleId) THEN allRules[ruleId].supersedes ELSE <<>>
       IN [k \in 1..Len(hits) |-> [superseded |-> hits[k], superseding |-> ruleId]]
          \o SupersedingFrom_NoPresenceCheck(ruleIds, i + 1)

\* getSupersedingRules: the entries pushed for ruleIds[i], ruleIds[i+1], ...
RECURSIVE SupersedingFrom(_, _)
SupersedingFrom(ruleIds, i) ==
  IF i > Len(ruleIds) THEN <<>>
  ELSE LET ruleId == ruleIds[i]
           hits == IF HasRule(ruleId)
                   THEN SelectSeq(allRules[ruleId].supersedes,
                                  LAMBDA supersededId : Includes(ruleIds, supersededId))
                   ELSE <<>>
       IN [k \in 1..Len(hits) |-> [superseded |-> hits[k], superseding |-> ruleId]]
          \o SupersedingFrom(ruleIds, i + 1)

GetSupersedingRules(ruleIds) == SupersedingFrom(ruleIds, 1)

\* Mutant: a rule is removed only when a rule that is itself kept supersedes
\* it (a walk from the top of each chain, one level deep).
RemoveSupersededRules_ByKeptOnly(ruleIds) ==
  LET found == SupersedingFrom(ruleIds, 1)
      supersededIds == {found[k].superseded : k \in 1..Len(found)}
      byKept == {found[k].superseded :
                   k \in {n \in 1..Len(found) :
                            found[n].superseding \notin supersededIds}}
  IN SelectSeq(ruleIds, LAMBDA ruleId : ruleId \notin byKept)

\* removeSupersededRules(ruleIds, config)
RemoveSupersededRules(ruleIds) ==
  LET found == GetSupersedingRules(ruleIds)
      supersededIds == {found[k].superseded : k \in 1..Len(found)}
  IN SelectSeq(ruleIds, LAMBDA ruleId : ruleId \notin supersededIds)

\* getSupersedingRules called directly by a caller.
GetSupersedingRulesCall ==
  /\ pc = "getSupersedingRules"
  /\ superseding' = GetSupersedingRules(ruleIdsArg)
  /\ pc' = "done"
  /\ UNCHANGED <<inputs, wizardVars, cacheVars, callVars, call, selectedRuleIds, processed, toProcess,
                 dependencies, conflicts, finalRuleIds, availability, finalIds,
                 finalSelections, warnings, generateRuleFilesArgs,
                 generateIndexFileArgs, exitCode>>

\* removeSupersededRules called directly by a caller.
RemoveSupersededRulesCall ==
  /\ pc = "removeSupersededRules"
  /\ finalIds' = RemoveSupersededRules(ruleIdsArg)
  /\ pc' = "done"
  /\ UNCHANGED <<inputs, wizardVars, cacheVars, callVars, call, selectedRuleIds, processed, toProcess,
                 dependencies, conflicts, finalRuleIds, availability,
                 superseding, finalSelections, warnings, generateRuleFilesArgs,
                 generateIndexFileArgs, exitCode>>

\* Mutant: the reason tells whether the id was in the list the caller
\* selected, not whether the catalog has a record of it.
CreateRuleSelections_BySelection(ruleIds) ==
  [k \in 1..Len(ruleIds) |->
     [ruleId |-> ruleIds[k], selected |-> TRUE,
      reason |-> IF Includes(selectedRuleIds, ruleIds[k]) THEN "manually selected"
                 ELSE "dependency"]]

\* createRuleSelections(ruleIds, allRules)
CreateRuleSelections(ruleIds) ==
  [k \in 1..Len(ruleIds) |->
     [ruleId |-> ruleIds[k], selected |-> TRUE,
      reason |-> IF HasRule(ruleIds[k]) THEN "manually selected"
                 ELSE "dependency"]]

\* Mutant: the ids that are not available are reported and still passed on.
ValidateRuleAvailability_KeepsMissing(ruleIds) ==
  [available |-> ruleIds,
   missing   |-> SelectSeq(ruleIds, LAMBDA ruleId : ruleId \notin availableRuleIds)]

\* validateRuleAvailability(ruleIds, config)
ValidateRuleAvailability(ruleIds) ==
  [available |-> SelectSeq(ruleIds, LAMBDA ruleId : ruleId \in availableRuleIds),
   missing   |-> SelectSeq(ruleIds, LAMBDA ruleId : ruleId \notin availableRuleIds)]

\* `Missing rules: ${missing.join(", ")}`
MissingRulesWarning(missing) == <<"Missing rules: ">> \o Join(missing)

\* `Rule '${ruleId}' has missing dependencies: ${missing.join(", ")}`
MissingDependenciesWarning(dep) ==
  <<"Rule '", dep.ruleId, "' has missing dependencies: ">>
    \o Join(dep.missingDependencies)

\* Mutant: a warning is pushed for every entry, without the test
\* `dep.missingDependencies.length > 0`.
RECURSIVE DependencyWarnings_EveryEntry(_)
DependencyWarnings_EveryEntry(deps) ==
  IF deps = <<>> THEN <<>>
  ELSE <<MissingDependenciesWarning(Head(deps))>>
       \o DependencyWarnings_EveryEntry(Tail(deps))

\* The warnings pushed by the loop over `dependencies`.
RECURSIVE DependencyWarnings(_)
DependencyWarnings(deps) ==
  IF deps = <<>> THEN <<>>
  ELSE (IF Head(deps).missingDependencies # <<>>
        THEN <<MissingDependenciesWarning(Head(deps))>>
        ELSE <<>>)
       \o DependencyWarnings(Tail(deps))

\* ---------------------------------------------------- resolveComprehensive

\* resolveComprehensive up to its call of resolveAllDependencies.
ResolveComprehensiveValidate ==
  /\ pc = "validateRuleAvailability"
  /\ LET result == ValidateRuleAvailability(ruleIdsArg)
     IN /\ availability' = result
        /\ warnings' = IF result.missing # <<>>
                       THEN <<MissingRulesWarning(result.missing)>>
                       ELSE <<>>
        /\ selectedRuleIds' = result.available
        /\ toProcess' = result.available
  /\ pc' = "resolveDependencies"
  /\ UNCHANGED <<inputs, wizardVars, cacheVars, callVars, call, processed, dependencies, conflicts,
                 finalRuleIds, superseding, finalIds, finalSelections,
                 generateRuleFilesArgs, generateIndexFileArgs, exitCode>>

\* resolveComprehensive after resolveAllDependencies returned: supersession,
\* final selections, dependency warnings, return to the generate command.
ResolveComprehensiveReturn ==
  /\ pc = "resolveComprehensive"
  /\ superseding' = GetSupersedingRules(finalRuleIds)
  /\ finalIds' = RemoveSupersededRules(finalRuleIds)
  /\ finalSelections' = CreateRuleSelections(RemoveSupersededRules(finalRuleIds))
  /\ warnings' = warnings \o DependencyWarnings(dependencies)
  /\ pc' = CASE entry = "runWizard" -> "resolved"
             [] entry = "resolveComprehensive" -> "returned"
             [] OTHER -> "generate"
  /\ UNCHANGED <<inputs, wizardVars, cacheVars, callVars, call, selectedRuleIds, processed, toProcess,
                 dependencies, conflicts, finalRuleIds, availability,
                 generateRuleFilesArgs, generateIndexFileArgs, exitCode>>

\* --------------------------------------------------- the generate command

\* Mutant: the conflicts are reported and the command goes on to generate.
GenerateCheckConflicts_NoExit ==
  /\ pc = "generate"
  /\ generateRuleFilesArgs' = Append(generateRuleFilesArgs, finalSelections)
  /\ pc' = "generateRuleFiles"
  /\ UNCHANGED <<inputs, wizardVars, cacheVars, callVars, call, selectedRuleIds, processed, toProcess,
                 dependencies, conflicts, finalRuleIds, availability,
                 superseding, finalIds, finalSelections, warnings,
                 generateIndexFileArgs, exitCode>>

\* The resolution is back: exit on conflicts, otherwise call generateRuleFiles.
GenerateCheckConflicts ==
  /\ pc = "generate"
  /\ IF conflicts # <<>>
     THEN /\ exitCode' = 1
          /\ pc' = "exit"
          /\ UNCHANGED generateRuleFilesArgs
     ELSE /\ generateRuleFilesArgs' = Append(generateRuleFilesArgs, finalSelections)
          /\ pc' = "generateRuleFiles"
          /\ UNCHANGED exitCode
  /\ UNCHANGED <<inputs, wizardVars, cacheVars, callVars, call, selectedRuleIds, processed, toProcess,
                 dependencies, conflicts, finalRuleIds, availability,
                 superseding, finalIds, finalSelections, warnings,
                 generateIndexFileArgs>>

\* generateRuleFiles resolved (with success or not, as the file system
\* decides); on success generateIndexFile is called and the command ends
\* with the status its result gives.
GenerateFinish ==
  /\ pc = "generateRuleFiles"
  /\ \E filesOk \in BOOLEAN, indexOk \in BOOLEAN :
       /\ generateIndexFileArgs' =
            IF filesOk THEN Append(generateIndexFileArgs, finalSelections)
            ELSE generateIndexFileArgs
       /\ exitCode' = IF filesOk /\ indexOk THEN 0 ELSE 1
  /\ pc' = "exit"
  /\ UNCHANGED <<inputs, wizardVars, cacheVars, callVars, call, selectedRuleIds, processed, toProcess,
                 dependencies, conflicts, finalRuleIds, availability,
                 superseding, finalIds, finalSelections, warnings,
                 generateRuleFilesArgs>>

\* ----------------------------------------------------------------- runWizard

\* The locals and results of the resolver's functions.
resolution == <<call, selectedRuleIds, processed, toProcess, dependencies,
                conflicts, finalRuleIds, availability, superseding, finalIds,
                finalSelections, warnings>>

\* The values of MinificationMode.
MinificationModes == {"minimal", "recommended", "select", "all"}

\* Lists of metadata fields the field selection prompt can answer.
FieldAnswers == {<<>>, <<"description">>, <<"description", "scope">>}

\* The answers of the conflict resolution prompt.
ConflictChoices == {"exclude1", "exclude2", "ignore"}

\* finalSelections.findIndex((s) => s.ruleId === ruleId), 0 for "not found".
FindIndex(selections, ruleId) ==
  IF \E i \in 1..Len(selections) : selections[i].ruleId = ruleId
  THEN CHOOSE i \in 1..Len(selections) :
         /\ selections[i].ruleId = ruleId
         /\ \A j \in 1..(i - 1) : selections[j].ruleId # ruleId
  ELSE 0

\* finalSelections.filter((_, i) => i !== index)
WithoutIndex(selections, index) ==
  [i \in 1..(Len(selections) - 1) |->
     IF i < index THEN selections[i] ELSE selections[i + 1]]

\* Mutant: the test on the index is `index > 0`, so the first entry stays.
Excluded_SkipsFirst(selections, ruleId) ==
  IF FindIndex(selections, ruleId) > 1
  THEN WithoutIndex(selections, FindIndex(selections, ruleId))
  ELSE selections

\* finalSelections after the case "exclude1" / "exclude2" for `ruleId`.
Excluded(selections, ruleId) ==
  IF FindIndex(selections, ruleId) > 0
  THEN WithoutIndex(selections, FindIndex(selections, ruleId))
  ELSE selections

\* Mutant: "exclude1" and "exclude2" take the other rule of the conflict.
AfterChoice_Swapped(selections, conflict, choice) ==
  CASE choice = "exclude1" -> Excluded(selections, conflict.ruleId2)
    [] choice = "exclude2" -> Excluded(selections, conflict.ruleId1)
    [] choice = "ignore"   -> selections

\* finalSelections after the switch on the answer of one conflict prompt.
AfterChoice(selections, conflict, choice) ==
  CASE choice = "exclude1" -> Excluded(selections, conflict.ruleId1)
    [] choice = "exclude2" -> Excluded(selections, conflict.ruleId2)
    [] choice = "ignore"   -> selections

\* normalizeOptions after the switch on the minification mode, for the modes
\* that need no further prompt.
NormalizeOptionsFor(mode) ==
  CASE mode = "minimal"     -> [minify |-> TRUE, keepFields |-> <<>>]
    [] mode = "recommended" -> [minify |-> TRUE, keepFields |-> <<"RECOMMENDED_FIELDS">>]
    [] mode = "all"         -> [minify |-> FALSE]
    [] OTHER                -> [minify |-> FALSE]

\* runWizard returns { success: false, ... }.
WizardFails ==
  /\ wizardResult' = [success |-> FALSE]
  /\ pc' = "returned"

\* The log after the prompt or collaborator `name` was awaited.
Shown(name) == Append(wizardLog, name)

\* The log after the prompt `name` was answered with a refusal ("refused")
\* or with an empty choice ("empty").
Declined(name, answer) == wizardLog \o <<name, answer>>

\* createWelcomePrompt, then the user's answer.
WizardWelcome ==
  /\ pc = "createWelcomePrompt"
  /\ \E proceed \in BOOLEAN :
       IF proceed
       THEN /\ wizardLog' = Shown("createWelcomePrompt")
            /\ pc' = "loadAllRules"
            /\ UNCHANGED wizardResult
       ELSE /\ wizardLog' = Declined("createWelcomePrompt", "refused")
            /\ WizardFails
  /\ UNCHANGED <<inputs, cacheVars, callVars, resolution, generateRuleFilesArgs,
                 generateIndexFileArgs, exitCode, minify, categoriesLeft,
                 wizardRuleIds, normalizeOptions, localSelections, answers,
                 generateRuleFilesOptions>>

\* loadAllRules (which throws when the directory cannot be read), the test
\* for an empty catalog, getAvailableCategories.
WizardLoadRules ==
  /\ pc = "loadAllRules"
  /\ wizardLog' = Shown("loadAllRules")
  /\ \E loaded \in BOOLEAN :
       IF loaded /\ DOMAIN allRules # {}
       THEN pc' = "createCategorySelectionPrompt" /\ UNCHANGED wizardResult
       ELSE WizardFails
  /\ UNCHANGED <<inputs, cacheVars, callVars, resolution, generateRuleFilesArgs,
                 generateIndexFileArgs, exitCode, minify, categoriesLeft,
                 wizardRuleIds, normalizeOptions, localSelections, answers,
                 generateRuleFilesOptions>>

\* What the wizard's prompts leave alone: everything but the wizard's log,
\* its position and its result.
WizardPromptFrame ==
  UNCHANGED <<inputs, cacheVars, callVars, resolution, generateRuleFilesArgs, generateIndexFileArgs,
              exitCode, minify, answers, generateRuleFilesOptions>>

\* createCategorySelectionPrompt and the test for an empty answer.
WizardSelectCategories ==
  /\ pc = "createCategorySelectionPrompt"
  /\ \E n \in 0..MaxCategories :
       IF n = 0
       THEN /\ wizardLog' = Declined("createCategorySelectionPrompt", "empty")
            /\ WizardFails
            /\ UNCHANGED categoriesLeft
       ELSE /\ wizardLog' = Shown("createCategorySelectionPrompt")
            /\ categoriesLeft' = n
            /\ pc' = "createRuleSelectionPrompt"
            /\ UNCHANGED wizardResult
  /\ WizardPromptFrame
  /\ UNCHANGED <<wizardRuleIds, normalizeOptions, localSelections>>

\* One round of the loop over the selected categories: createRuleSelectionPrompt
\* answers the rules ticked in this category (ruleIdsArg lists, in order, what
\* the user ticks over all the categories) and they are pushed; after the
\* last category, the test for an empty selection.
WizardSelectRules ==
  /\ pc = "createRuleSelectionPrompt"
  /\ categoriesLeft' = categoriesLeft - 1
  /\ LET done == Len(wizardRuleIds)
         rest == Len(ruleIdsArg) - done
     IN \E k \in 0..rest :
          /\ categoriesLeft = 1 => k = rest
          /\ wizardRuleIds' = wizardRuleIds \o SubSeq(ruleIdsArg, done + 1, done + k)
  /\ IF categoriesLeft > 1
     THEN /\ wizardLog' = Shown("createRuleSelectionPrompt")
          /\ UNCHANGED <<pc, wizardResult>>
     ELSE IF wizardRuleIds' = <<>>
     THEN /\ wizardLog' = Declined("createRuleSelectionPrompt", "empty")
          /\ WizardFails
     ELSE /\ wizardLog' = Shown("createRuleSelectionPrompt")
          /\ pc' = "createOutputPathPrompt"
          /\ UNCHANGED wizardResult
  /\ WizardPromptFrame
  /\ UNCHANGED <<normalizeOptions, localSelections>>

\* createOutputPathPrompt
WizardOutputPath ==
  /\ pc = "createOutputPathPrompt"
  /\ wizardLog' = Shown("createOutputPathPrompt")
  /\ pc' = "createMinificationModePrompt"
  /\ WizardPromptFrame
  /\ UNCHANGED <<categoriesLeft, wizardRuleIds, normalizeOptions,
                 localSelections, wizardResult>>

\* createMinificationModePrompt and the switch on its answer, up to the
\* field selection prompt of the mode "select".
WizardMinificationMode ==
  /\ pc = "createMinificationModePrompt"
  /\ wizardLog' = Shown("createMinificationModePrompt")
  /\ \E mode \in MinificationModes :
       IF mode = "select"
       THEN /\ pc' = "createFieldSelectionPrompt"
            /\ normalizeOptions' = [minify |-> FALSE]
       ELSE /\ pc' = "validateRuleAvailability"
            /\ normalizeOptions' = NormalizeOptionsFor(mode)
  /\ WizardPromptFrame
  /\ UNCHANGED <<categoriesLeft, wizardRuleIds, localSelections, wizardResult>>

\* createFieldSelectionPrompt, the rest of the case "select"; then
\* resolveComprehensive is called.
WizardFieldSelection ==
  /\ pc = "createFieldSelectionPrompt"
  /\ wizardLog' = Shown("createFieldSelectionPrompt")
  /\ \E selectedFields \in FieldAnswers :
       normalizeOptions' = [minify |-> TRUE, keepFields |-> selectedFields]
  /\ pc' = "validateRuleAvailability"
  /\ WizardPromptFrame
  /\ UNCHANGED <<categoriesLeft, wizardRuleIds, localSelections, wizardResult>>

\* resolveComprehensive has returned: finalSelections starts as the
\* resolution's list, and the conflicts decide whether questions follow.
WizardResolved ==
  /\ pc = "resolved"
  /\ wizardLog' = Shown("resolveComprehensive")
  /\ localSelections' = finalSelections
  /\ pc' = IF Len(conflicts) > 0 THEN "createConflictResolutionPrompt"
           ELSE "createReviewPrompt"
  /\ WizardPromptFrame
  /\ UNCHANGED <<categoriesLeft, wizardRuleIds, normalizeOptions, wizardResult>>

\* One round of the loop over resolution.conflicts:
\* createConflictResolutionPrompt and the switch on its answer.
WizardResolveConflict ==
  /\ pc = "createConflictResolutionPrompt"
  /\ Len(answers) < Len(conflicts)
  /\ wizardLog' = Shown("createConflictResolutionPrompt")
  /\ \E choice \in ConflictChoices :
       /\ answers' = Append(answers, choice)
       /\ localSelections' =
            AfterChoice(localSelections, conflicts[Len(answers) + 1], choice)
  /\ pc' = IF Len(answers) + 1 = Len(conflicts) THEN "createReviewPrompt"
           ELSE "createConflictResolutionPrompt"
  /\ UNCHANGED <<inputs, cacheVars, callVars, resolution, generateRuleFilesArgs,
                 generateIndexFileArgs, exitCode, minify,
                 generateRuleFilesOptions, categoriesLeft, wizardRuleIds,
                 normalizeOptions, wizardResult>>

\* createReviewPrompt and the user's answer.
WizardReview ==
  /\ pc = "createReviewPrompt"
  /\ \E reviewProceed \in BOOLEAN :
       IF reviewProceed
       THEN /\ wizardLog' = Shown("createReviewPrompt")
            /\ pc' = "createGenerationConfirmationPrompt"
            /\ UNCHANGED wizardResult
       ELSE /\ wizardLog' = Declined("createReviewPrompt", "refused")
            /\ WizardFails
  /\ WizardPromptFrame
  /\ UNCHANGED <<categoriesLeft, wizardRuleIds, normalizeOptions, localSelections>>

\* Mutant: the answer of the confirmation prompt is not tested.
WizardConfirm_AnswerIgnored ==
  /\ pc = "createGenerationConfirmationPrompt"
  /\ \E generationConfirm \in BOOLEAN :
       /\ wizardLog' =
            IF generationConfirm
            THEN Shown("createGenerationConfirmationPrompt")
            ELSE Declined("createGenerationConfirmationPrompt", "refused")
       /\ pc' = "generateRuleFiles"
       /\ UNCHANGED wizardResult
  /\ WizardPromptFrame
  /\ UNCHANGED <<categoriesLeft, wizardRuleIds, normalizeOptions, localSelections>>

\* createGenerationConfirmationPrompt and the user's answer.
WizardConfirm ==
  /\ pc = "createGenerationConfirmationPrompt"
  /\ \E generationConfirm \in BOOLEAN :
       IF generationConfirm
       THEN /\ wizardLog' = Shown("createGenerationConfirmationPrompt")
            /\ pc' = "generateRuleFiles"
            /\ UNCHANGED wizardResult
       ELSE /\ wizardLog' = Declined("createGenerationConfirmationPrompt", "refused")
            /\ WizardFails
  /\ WizardPromptFrame
  /\ UNCHANGED <<categoriesLeft, wizardRuleIds, normalizeOptions, localSelections>>

\* generateRuleFiles(allRules, finalSelections, outputPath, config, false,
\* normalizeOptions) and the test of its result.
WizardGenerateRuleFiles ==
  /\ pc = "generateRuleFiles"
  /\ entry = "runWizard"
  /\ wizardLog' = Shown("generateRuleFiles")
  /\ generateRuleFilesArgs' = Append(generateRuleFilesArgs, localSelections)
  /\ generateRuleFilesOptions' = Append(generateRuleFilesOptions, normalizeOptions)
  /\ \E success \in BOOLEAN :
       IF success THEN pc' = "generateIndexFile" /\ UNCHANGED wizardResult
       ELSE WizardFails
  /\ UNCHANGED <<inputs, cacheVars, callVars, resolution, generateIndexFileArgs, exitCode, minify,
                 answers, categoriesLeft, wizardRuleIds, normalizeOptions,
                 localSelections>>

\* generateIndexFile and the test of its result, then generateClaudeMd, whose
\* failure only warns, and the successful return.
WizardGenerateIndexFile ==
  /\ pc = "generateIndexFile"
  /\ wizardLog' = Shown("generateIndexFile")
  /\ generateIndexFileArgs' = Append(generateIndexFileArgs, localSelections)
  /\ \E success \in BOOLEAN, claudeSuccess \in BOOLEAN :
       IF success
       THEN wizardResult' = [success |-> TRUE] /\ pc' = "returned"
       ELSE WizardFails
  /\ UNCHANGED <<inputs, cacheVars, callVars, resolution, generateRuleFilesArgs, exitCode, minify,
                 answers, generateRuleFilesOptions, categoriesLeft,
                 wizardRuleIds, normalizeOptions, localSelections>>

\* -------------------------------------------------------------- rule cache

\* The variables of the resolver, the generate command and the wizard.
resolverVars == <<inputs, pc, resolution, generateRuleFilesArgs,
                  generateIndexFileArgs, exitCode, wizardVars, callVars>>

\* rulesCache.has(cacheKey)
CacheHas(path) == path \in DOMAIN rulesCache

\* rulesCache.set(cacheKey, rules)
CacheSet(path, rules) ==
  [key \in DOMAIN rulesCache \cup {path} |->
     IF key = path THEN rules ELSE rulesCache[key]]

\* The cache after readdir settled: the loaded rules are stored on success,
\* nothing is stored when the read failed.
CacheAfterRead(path, success) ==
  IF success THEN CacheSet(path, allRules) ELSE rulesCache

\* loadAllRules(config) is called and runs up to its first await: a cached
\* path returns the cached rules, any other path starts readdir.
LoadAllRulesCall ==
  /\ loadAllRulesCalls < MaxLoads
  /\ loadAllRulesCalls' = loadAllRulesCalls + 1
  /\ \E i \in 1..MaxLoaders, path \in Paths :
       /\ loader[i].pc \in {"idle", "returned", "threw"}
       /\ loader' = [loader EXCEPT ![i] =
                       [pc |-> IF CacheHas(path) THEN "returned" ELSE "readdir",
                        path |-> path]]
  /\ UNCHANGED <<resolverVars, rulesCache, reads>>

\* readdir settles for a call in flight: on success the files are loaded,
\* the rules are cached under the path and returned; on failure the call
\* throws.
LoadAllRulesReaddir ==
  /\ \E i \in 1..MaxLoaders, success \in BOOLEAN :
       /\ loader[i].pc = "readdir"
       /\ rulesCache' = CacheAfterRead(loader[i].path, success)
       /\ reads' = IF success
                   THEN [reads EXCEPT ![loader[i].path] = @ + 1]
                   ELSE reads
       /\ loader' = [loader EXCEPT ![i].pc =
                       IF success THEN "returned" ELSE "threw"]
  /\ UNCHANGED <<resolverVars, loadAllRulesCalls>>

\* clearRulesCache(): rulesCache.clear()
ClearRulesCache ==
  /\ rulesCache' = <<>>
  /\ reads' = [path \in Paths |-> 0]
  /\ UNCHANGED <<resolverVars, loader, loadAllRulesCalls>>

\* ------------------------------------------ resolveComprehensive, two calls

\* The locals of a resolveComprehensive call that has just been made with
\* the selection `ruleIds`.
Fresh(name, ruleIds) ==
  [name |-> name, ruleIdsArg |-> ruleIds, pc |-> "validateRuleAvailability",
   call |-> 1, selectedRuleIds |-> <<>>, processed |-> {}, toProcess |-> <<>>,
   dependencies |-> <<>>, conflicts |-> <<>>, finalRuleIds |-> <<>>,
   availability |-> [available |-> <<>>, missing |-> <<>>],
   superseding |-> <<>>, finalIds |-> <<>>, finalSelections |-> <<>>,
   warnings |-> <<>>]

\* The locals of the call that is running.
Running ==
  [name |-> current, ruleIdsArg |-> ruleIdsArg, pc |-> pc, call |-> call,
   selectedRuleIds |-> selectedRuleIds, processed |-> processed,
   toProcess |-> toProcess, dependencies |-> dependencies,
   conflicts |-> conflicts, finalRuleIds |-> finalRuleIds,
   availability |-> availability, superseding |-> superseding,
   finalIds |-> finalIds, finalSelections |-> finalSelections,
   warnings |-> warnings]

\* Mutant: `processed` is one module-level Set, shared by the calls.
Resume_SharedProcessed(locals) ==
  /\ current' = locals.name
  /\ ruleIdsArg' = locals.ruleIdsArg
  /\ pc' = locals.pc
  /\ call' = locals.call
  /\ selectedRuleIds' = locals.selectedRuleIds
  /\ processed' = processed
  /\ toProcess' = locals.toProcess
  /\ dependencies' = locals.dependencies
  /\ conflicts' = locals.conflicts
  /\ finalRuleIds' = locals.finalRuleIds
  /\ availability' = locals.availability
  /\ superseding' = locals.superseding
  /\ finalIds' = locals.finalIds
  /\ finalSelections' = locals.finalSelections
  /\ warnings' = locals.warnings

\* The call with the locals `locals` runs next: every array, Set and result
\* of the resolver's functions is declared inside the function body, so each
\* call continues on its own.
Resume(locals) ==
  /\ current' = locals.name
  /\ ruleIdsArg' = locals.ruleIdsArg
  /\ pc' = locals.pc
  /\ call' = locals.call
  /\ selectedRuleIds' = locals.selectedRuleIds
  /\ processed' = locals.processed
  /\ toProcess' = locals.toProcess
  /\ dependencies' = locals.dependencies
  /\ conflicts' = locals.conflicts
  /\ finalRuleIds' = locals.finalRuleIds
  /\ availability' = locals.availability
  /\ superseding' = locals.superseding
  /\ finalIds' = locals.finalIds
  /\ finalSelections' = locals.finalSelections
  /\ warnings' = locals.warnings

\* What the running call returns, with the selection it was given.
Returns ==
  [call |-> current, ruleIds |-> ruleIdsArg,
   result |-> [finalSelections |-> finalSelections,
               dependencies |-> dependencies,
               conflicts |-> conflicts,
               superseding |-> superseding,
               warnings |-> warnings]]

\* The running call is suspended at an await: anywhere but inside the
\* synchronous while loop of resolveDependencies.
AtAwait ==
  /\ pc # "returned"
  /\ pc = "resolveDependencies" => (processed = {} \/ toProcess = <<>>)

\* What the calls leave alone: the catalog, the commands, the wizard, the cache.
CallFrame ==
  UNCHANGED <<entry, allRules, availableRuleIds, generateRuleFilesArgs,
              generateIndexFileArgs, exitCode, wizardVars, cacheVars>>

\* The call made alone has returned; the caller now makes two calls without
\* awaiting the first, one of them with the same selection as before.
ConcurrentCalls ==
  /\ pc = "returned"
  /\ current = "alone"
  /\ returned' = Append(returned, Returns)
  /\ \E other \in Selections(MaxOther), same \in {"first", "second"} :
       /\ Resume(Fresh("first", IF same = "first" THEN ruleIdsArg ELSE other))
       /\ suspended' =
            <<Fresh("second", IF same = "second" THEN ruleIdsArg ELSE other)>>
  /\ UNCHANGED yields
  /\ CallFrame

\* The running call waits at an await and the event loop continues the
\* other call.
Yield ==
  /\ current \in {"first", "second"}
  /\ suspended # <<>>
  /\ AtAwait
  /\ yields < MaxYields
  /\ yields' = yields + 1
  /\ suspended' = <<Running>>
  /\ Resume(suspended[1])
  /\ UNCHANGED returned
  /\ CallFrame

\* One of the two calls returns; the other, if it is still waiting, goes on.
CallReturns ==
  /\ pc = "returned"
  /\ current \in {"first", "second"}
  /\ returned' = Append(returned, Returns)
  /\ IF suspended # <<>>
     THEN Resume(suspended[1]) /\ suspended' = <<>>
     ELSE /\ pc' = "done"
          /\ UNCHANGED <<current, ruleIdsArg, resolution, suspended>>
  /\ UNCHANGED yields
  /\ CallFrame

\* ---------------------------------------------------------- specifications

\* The state when the caller's call begins: for the entry points `entries`,
\* the catalogs that declare at most n entries in the lists `kinds`, and the
\* lists of at most `len` ids.
InitFor(entries, kinds, n, len) ==
  /\ entry \in entries
  /\ allRules \in Catalogs(kinds, n)
  /\ availableRuleIds \in SUBSET Ids
  /\ ruleIdsArg \in Selections(len)
  /\ pc = CASE entry = "detectConflicts" -> "detectConflicts"
            [] entry = "resolveDependencies" -> "resolveDependencies"
            [] entry = "resolveAllDependencies" -> "resolveDependencies"
            [] entry = "generate" -> "validateRuleAvailability"
            [] entry = "runWizard" -> "createWelcomePrompt"
            [] entry = "resolveComprehensive" -> "validateRuleAvailability"
            [] entry = "loadAllRules" -> "idle"
            [] entry = "getSupersedingRules" -> "getSupersedingRules"
            [] entry = "removeSupersededRules" -> "removeSupersededRules"
  /\ call = 1
  /\ selectedRuleIds = IF entry \in {"generate", "runWizard",
                                    "resolveComprehensive", "loadAllRules"}
                       THEN <<>>
                       ELSE ruleIdsArg
  /\ toProcess = IF entry \in {"resolveDependencies", "resolveAllDependencies"}
                 THEN ruleIdsArg ELSE <<>>
  /\ processed = {}
  /\ dependencies = <<>>
  /\ conflicts = <<>>
  /\ finalRuleIds = <<>>
  /\ availability = [available |-> <<>>, missing |-> <<>>]
  /\ superseding = <<>>
  /\ finalIds = <<>>
  /\ finalSelections = <<>>
  /\ warnings = <<>>
  /\ generateRuleFilesArgs = <<>>
  /\ generateIndexFileArgs = <<>>
  /\ exitCode = "running"
  /\ minify \in (IF entry = "runWizard" THEN BOOLEAN ELSE {FALSE})
  /\ wizardLog = <<>>
  /\ categoriesLeft = 0
  /\ wizardRuleIds = <<>>
  /\ normalizeOptions = [minify |-> FALSE]
  /\ localSelections = <<>>
  /\ answers = <<>>
  /\ generateRuleFilesOptions = <<>>
  /\ wizardResult = "running"
  /\ rulesCache = <<>>
  /\ loader = [i \in 1..MaxLoaders |-> [pc |-> "idle", path |-> ""]]
  /\ reads = [path \in Paths |-> 0]
  /\ loadAllRulesCalls = 0
  /\ current = "alone"
  /\ suspended = <<>>
  /\ returned = <<>>
  /\ yields = 0

\* The generate command: resolveComprehensive over a catalog that declares
\* requirements, conflicts and supersessions, then generation.
Init == InitFor({"generate"}, Kinds, MaxEdges, MaxSel)

Next ==
  \/ ResolveComprehensiveValidate
  \/ ResolveDependenciesStep
  \/ ResolveDependenciesReturn
  \/ DetectConflictsCall
  \/ ResolveAllDependenciesReturn
  \/ ResolveComprehensiveReturn
  \/ GenerateCheckConflicts
  \/ GenerateFinish

Spec == Init /\ [][Next]_vars

\* The generate command with the fairness of a running JavaScript program: a
\* function that can take its next step does take it.
FairSpec == Init /\ [][Next]_vars /\ WF_vars(Next)

\* The generate command over catalogs that declare what decides the final
\* selection: requirements and supersessions.
InitSelection ==
  InitFor({"generate"}, {"requires", "supersedes"}, MaxEdges, MaxSel)

SpecSelection == InitSelection /\ [][Next]_vars

\* resolveAllDependencies called directly, with any list of ids (available or
\* not), over catalogs that declare requirements; the caller then runs
\* resolveDependencies again on the finalRuleIds it got.
InitDeps ==
  InitFor({"resolveAllDependencies"}, {"requires"}, MaxRequires, MaxSel)

NextDeps ==
  \/ ResolveDependenciesStep
  \/ ResolveDependenciesReturn
  \/ DetectConflictsCall
  \/ ResolveAllDependenciesReturn
  \/ ResolveDependenciesAgain

SpecDeps == InitDeps /\ [][NextDeps]_vars

\* resolveDependencies called directly, with the fairness of a running
\* JavaScript function: a body that can take its next step does take it.
InitTermination ==
  InitFor({"resolveDependencies"}, {"requires"}, MaxRequires, MaxSeeds)

NextTermination ==
  \/ ResolveDependenciesStep
  \/ ResolveDependenciesReturn

FairTermination ==
  InitTermination /\ [][NextTermination]_vars /\ WF_vars(NextTermination)

\* detectConflicts called directly, through resolveAllDependencies and
\* through the generate command, over catalogs that declare conflicts.
InitConflicts ==
  InitFor({"detectConflicts", "resolveAllDependencies", "generate"},
          {"conflicts"}, MaxConflicts, MaxSel)

SpecConflicts == InitConflicts /\ [][Next]_vars

\* getSupersedingRules and removeSupersededRules called directly, with any
\* list of ids, over catalogs that declare supersessions.
InitSupersession ==
  InitFor({"getSupersedingRules", "removeSupersededRules"}, {"supersedes"},
          MaxSupersedes, MaxIds)

NextSupersession ==
  \/ GetSupersedingRulesCall
  \/ RemoveSupersededRulesCall

SpecSupersession == InitSupersession /\ [][NextSupersession]_vars

\* The init command's wizard over a catalog that declares requirements and
\* conflicts: the prompts offer the rules of the catalog, so the user ticks
\* distinct ids of loaded rules, and the resolver sees the same catalog.
InitWizard ==
  /\ InitFor({"runWizard"}, {"requires", "conflicts"}, MaxEdges, MaxSel)
  /\ availableRuleIds = DOMAIN allRules
  /\ Range(ruleIdsArg) \subseteq DOMAIN allRules
  /\ Cardinality(Range(ruleIdsArg)) = Len(ruleIdsArg)

NextWizard ==
  \/ WizardWelcome
  \/ WizardLoadRules
  \/ WizardSelectCategories
  \/ WizardSelectRules
  \/ WizardOutputPath
  \/ WizardMinificationMode
  \/ WizardFieldSelection
  \/ ResolveComprehensiveValidate
  \/ ResolveDependenciesStep
  \/ ResolveDependenciesReturn
  \/ DetectConflictsCall
  \/ ResolveAllDependenciesReturn
  \/ ResolveComprehensiveReturn
  \/ WizardResolved
  \/ WizardResolveConflict
  \/ WizardReview
  \/ WizardConfirm
  \/ WizardGenerateRuleFiles
  \/ WizardGenerateIndexFile

SpecWizard == InitWizard /\ [][NextWizard]_vars

\* loadAllRules and clearRulesCache called in any order, with up to
\* MaxLoaders calls in flight, over a rules directory that holds any catalog
\* without relationships.
InitCache ==
  /\ InitFor({"loadAllRules"}, {}, 0, 0)
  /\ availableRuleIds = DOMAIN allRules

NextCache ==
  \/ LoadAllRulesCall
  \/ LoadAllRulesReaddir
  \/ ClearRulesCache

SpecCache == InitCache /\ [][NextCache]_vars

\* resolveComprehensive called alone, then twice more with the two calls in
\* flight together, over one unchanged catalog whose loaded rules are the
\* available ones (getAvailableRuleIds maps over loadAllRules).
InitCalls ==
  /\ InitFor({"resolveComprehensive"}, Kinds, MaxCallEdges, MaxSel)
  /\ availableRuleIds = DOMAIN allRules

NextCalls ==
  \/ ResolveComprehensiveValidate
  \/ ResolveDependenciesStep
  \/ ResolveDependenciesReturn
  \/ DetectConflictsCall
  \/ ResolveAllDependenciesReturn
  \/ ResolveComprehensiveReturn
  \/ ConcurrentCalls
  \/ Yield
  \/ CallReturns

SpecCalls == InitCalls /\ [][NextCalls]_vars




\* ------------------------------------------------------------- properties

\* One round of the closure under `requires`: the members of X, and every
\* available id a member's record requires.
RequiredBy(X) ==
  X \cup {r \in availableRuleIds : \E m \in X : Declares(m, "requires", r)}

\* The least set that contains X and is closed under RequiredBy.
RECURSIVE RequiresClosure(_)
RequiresClosure(X) ==
  IF RequiredBy(X) = X THEN X ELSE RequiresClosure(RequiredBy(X))

\* resolveAllDependencies has returned to the caller that called it directly.
ResolveAllReturned == entry = "resolveAllDependencies" /\ pc = "done"

\* C1: when resolveAllDependencies returns, the ids of finalRuleIds are
\* exactly the transitive closure of the selection under `requires`
\* (restricted to available ids): nothing more, nothing less.
C1_FinalRuleIdsIsClosure ==
  ResolveAllReturned =>
    Range(finalRuleIds) = RequiresClosure(Range(ruleIdsArg))

\* C1 witness: one selected rule whose closure took two levels of expansion
\* (two DependencyInfo entries) and reached three rules.
C1_Witness ==
  /\ ResolveAllReturned
  /\ call = 1
  /\ Len(ruleIdsArg) = 1
  /\ Len(dependencies) = 2
  /\ Len(finalRuleIds) = 3

\* C2: every run of resolveDependencies' loop ends: the worklist becomes
\* empty and the function returns, whatever cycles `requires` has.
C2_ResolveDependenciesTerminates ==
  (pc = "resolveDependencies") ~> (pc = "done" /\ toProcess = <<>>)

\* C2 witness: the loop has returned after processing two rules that require
\* each other.
C2_Witness ==
  /\ entry = "resolveDependencies"
  /\ pc = "done"
  /\ \E x \in processed, y \in processed :
       /\ x # y
       /\ Declares(x, "requires", y)
       /\ Declares(y, "requires", x)

\* resolveComprehensive has returned to the generate command.
ResolveComprehensiveReturned ==
  entry = "generate" /\ pc \in {"generate", "generateRuleFiles", "exit"}

\* C3: finalSelections holds each rule id at most once.
C3_FinalSelectionsDistinct ==
  ResolveComprehensiveReturned =>
    \A i \in 1..Len(finalSelections), j \in 1..Len(finalSelections) :
      i # j => finalSelections[i].ruleId # finalSelections[j].ruleId

\* C3 witness: the caller listed an available id twice, a dependency was
\* added, and the final selection holds two rules.
C3_Witness ==
  /\ ResolveComprehensiveReturned
  /\ Len(availability.available) = 2
  /\ availability.available[1] = availability.available[2]
  /\ dependencies # <<>>
  /\ Len(finalSelections) = 2

\* C4: resolveDependencies run again on finalRuleIds adds nothing: no entry
\* it returns has a non-empty addedDependencies.
C4_ExpansionIdempotent ==
  (entry = "resolveAllDependencies" /\ pc = "done" /\ call = 2) =>
    \A k \in 1..Len(dependencies) : dependencies[k].addedDependencies = <<>>

\* C4 witness: the first run added a dependency, and the second run, on the
\* larger list, still returned an entry (for a missing dependency).
C4_Witness ==
  /\ entry = "resolveAllDependencies" /\ pc = "done" /\ call = 2
  /\ Len(finalRuleIds) > Len(ArrayFromSet(ruleIdsArg))
  /\ dependencies # <<>>

\* C5, as claimed: no selection handed to generateRuleFiles holds a rule that
\* lists another rule of that selection in its `conflicts`.
C5_RenderedSelectionConflictFree ==
  \A n \in 1..Len(generateRuleFilesArgs) :
    LET rendered == {generateRuleFilesArgs[n][k].ruleId :
                       k \in 1..Len(generateRuleFilesArgs[n])}
    IN \A x \in rendered, y \in rendered :
         x # y => ~Declares(x, "conflicts", y)

\* detectConflicts has returned its list.
ConflictsReturned ==
  pc \notin {"validateRuleAvailability", "resolveDependencies", "detectConflicts"}

\* The ids of the list detectConflicts was given.
Selected == Range(selectedRuleIds)

\* C6: detectConflicts is complete (every declared conflict between two
\* distinct selected ids is named by some entry) and sound (every entry names
\* two selected ids, one of which lists the other).
C6_DetectConflictsCompleteAndSound ==
  ConflictsReturned =>
    /\ \A x \in Selected, y \in Selected :
         (x # y /\ Declares(x, "conflicts", y)) =>
           \E k \in 1..Len(conflicts) :
             {conflicts[k].ruleId1, conflicts[k].ruleId2} = {x, y}
    /\ \A k \in 1..Len(conflicts) :
         /\ conflicts[k].ruleId1 \in Selected
         /\ conflicts[k].ruleId2 \in Selected
         /\ \/ Declares(conflicts[k].ruleId1, "conflicts", conflicts[k].ruleId2)
            \/ Declares(conflicts[k].ruleId2, "conflicts", conflicts[k].ruleId1)

\* C6 witness: the direct call returned a conflict that the second selected
\* rule declares against the first, which has no catalog record.
C6_Witness ==
  /\ entry = "detectConflicts" /\ pc = "done"
  /\ Len(selectedRuleIds) = 2
  /\ ~HasRule(selectedRuleIds[1])
  /\ selectedRuleIds[1] # selectedRuleIds[2]
  /\ Declares(selectedRuleIds[2], "conflicts", selectedRuleIds[1])
  /\ conflicts # <<>>

\* The text "Rule 'x' conflicts with rule 'y'", in the pieces the model
\* builds a reason from.
SaysConflictsWith(x, y) == <<"Rule '", x, "' conflicts with rule '", y, "'">>

\* The ConflictInfo expected for `declarer` listing `other`.
ConflictInfo(ruleId1, ruleId2, declarer, other) ==
  [ruleId1 |-> ruleId1, ruleId2 |-> ruleId2,
   reason |-> SaysConflictsWith(declarer, other)]

\* The list given is [x, y], two different ids, and the only conflicts the
\* catalog declares between them (or of one with itself) are those of `pairs`.
OnlyConflictsBetween(x, y, pairs) ==
  /\ selectedRuleIds = <<x, y>>
  /\ x # y
  /\ \A p \in {x, y}, q \in {x, y} :
       Declares(p, "conflicts", q) <=> <<p, q>> \in pairs

\* C7, as claimed: a mutual conflict yields exactly two entries.
C7_MutualConflictYieldsTwo ==
  \A x \in Ids, y \in Ids :
    (ConflictsReturned /\ OnlyConflictsBetween(x, y, {<<x, y>>, <<y, x>>})) =>
      Len(conflicts) = 2

\* C7, amended: a mutual conflict yields exactly three entries: the first
\* rule's declaration once, the second rule's declaration twice (found by the
\* first rule's scan of the later rules, and by the second rule's own list).
C7_MutualConflictYieldsThree ==
  \A x \in Ids, y \in Ids :
    (ConflictsReturned /\ OnlyConflictsBetween(x, y, {<<x, y>>, <<y, x>>})) =>
      conflicts = <<ConflictInfo(x, y, x, y),
                    ConflictInfo(x, y, y, x),
                    ConflictInfo(y, x, y, x)>>

\* C7 witness: detectConflicts, called directly, returned for two rules that
\* list each other.
C7_Witness ==
  /\ entry = "detectConflicts" /\ pc = "done"
  /\ \E x \in Ids, y \in Ids :
       OnlyConflictsBetween(x, y, {<<x, y>>, <<y, x>>})

\* C8: when only the first rule lists the second, exactly one entry is
\* returned, {ruleId1: first, ruleId2: second}, whose reason says the first
\* conflicts with the second.
C8_OneDirectionalYieldsOne ==
  \A x \in Ids, y \in Ids :
    (ConflictsReturned /\ OnlyConflictsBetween(x, y, {<<x, y>>})) =>
      conflicts = <<ConflictInfo(x, y, x, y)>>

\* C8 witness: detectConflicts, called directly, returned for [A, B] where
\* only A lists B.
C8_Witness ==
  /\ entry = "detectConflicts" /\ pc = "done"
  /\ \E x \in Ids, y \in Ids : OnlyConflictsBetween(x, y, {<<x, y>>})

\* A warning that starts the way the missing-rules warning does.
IsMissingRulesWarning(w) == w # <<>> /\ w[1] = "Missing rules: "

\* C9: when only the later rule b lists the earlier rule a (both being rules
\* of the catalog), detectConflicts
\* returns two entries, the first {a, b, "Rule 'b' conflicts with rule 'a'"};
\* resolveAllDependencies reports two as well, and so does
\* resolveComprehensive (both rules being available), with no missing-rules
\* warning.
C9_LaterDeclarationYieldsTwo ==
  \A x \in Ids, y \in Ids :
    (ConflictsReturned /\ ruleIdsArg = <<x, y>>
       /\ (entry = "generate" => {x, y} \subseteq availableRuleIds)
       /\ HasRule(x)
       /\ OnlyConflictsBetween(x, y, {<<y, x>>})) =>
      /\ Len(conflicts) = 2
      /\ conflicts[1] = ConflictInfo(x, y, y, x)
      /\ \A k \in 1..Len(warnings) : ~IsMissingRulesWarning(warnings[k])

\* C9 witness: the generate command got that resolution and has exited.
C9_Witness ==
  /\ entry = "generate" /\ pc = "exit"
  /\ \E x \in Ids, y \in Ids :
       /\ ruleIdsArg = <<x, y>>
       /\ {x, y} \subseteq availableRuleIds
       /\ HasRule(x)
       /\ OnlyConflictsBetween(x, y, {<<y, x>>})

\* Some occurrence of x comes strictly before some occurrence of y in the
\* list detectConflicts was given.
Before(x, y) ==
  \E i \in 1..Len(selectedRuleIds), j \in 1..Len(selectedRuleIds) :
    i < j /\ selectedRuleIds[i] = x /\ selectedRuleIds[j] = y

\* C10, as claimed: every entry has ruleId1 strictly before ruleId2 in the
\* list given.
C10_OrientedByPosition ==
  ConflictsReturned =>
    \A k \in 1..Len(conflicts) :
      Before(conflicts[k].ruleId1, conflicts[k].ruleId2)

\* C10, amended: every entry either has ruleId1 strictly before ruleId2 in
\* the list given, or reports a declaration of ruleId1's own record (ruleId1
\* lists ruleId2, and the reason names ruleId1 as the rule that conflicts),
\* wherever the two stand in the list.
C10_OrientedByPositionOrDeclaration ==
  ConflictsReturned =>
    \A k \in 1..Len(conflicts) :
      \/ Before(conflicts[k].ruleId1, conflicts[k].ruleId2)
      \/ /\ Declares(conflicts[k].ruleId1, "conflicts", conflicts[k].ruleId2)
         /\ conflicts[k].reason =
              SaysConflictsWith(conflicts[k].ruleId1, conflicts[k].ruleId2)

\* C10 witness: an entry between two different rules whose ruleId1 does not
\* come before its ruleId2.
C10_Witness ==
  /\ ConflictsReturned
  /\ \E k \in 1..Len(conflicts) :
       /\ conflicts[k].ruleId1 # conflicts[k].ruleId2
       /\ ~Before(conflicts[k].ruleId1, conflicts[k].ruleId2)

\* C11, as claimed: no entry detectConflicts returns has ruleId1 equal to
\* ruleId2, even when a selected rule lists its own id in `conflicts`.
C11_NoSelfPairs ==
  ConflictsReturned =>
    \A k \in 1..Len(conflicts) : conflicts[k].ruleId1 # conflicts[k].ruleId2

\* The ids resolveDependencies added as dependencies.
Added ==
  UNION {Range(dependencies[k].addedDependencies) : k \in 1..Len(dependencies)}

\* C12: in resolveComprehensive both ids of every ConflictInfo are ids the
\* caller selected that are available, and no ConflictInfo names an id that
\* is present only as an added dependency.
C12_ConflictsOverAvailableSelected ==
  (entry = "generate" /\ ConflictsReturned) =>
    \A k \in 1..Len(conflicts) :
      /\ conflicts[k].ruleId1 \in Range(ruleIdsArg) \cap availableRuleIds
      /\ conflicts[k].ruleId2 \in Range(ruleIdsArg) \cap availableRuleIds
      /\ conflicts[k].ruleId1 \notin Added \ Range(ruleIdsArg)
      /\ conflicts[k].ruleId2 \notin Added \ Range(ruleIdsArg)

\* C12 witness: resolveComprehensive returned no conflict although a selected
\* rule and a rule added as its dependency are in conflict by declaration.
C12_Witness ==
  /\ entry = "generate" /\ pc = "generate"
  /\ conflicts = <<>>
  /\ \E x \in Range(ruleIdsArg) \cap availableRuleIds, y \in Added :
       /\ y \notin Range(ruleIdsArg)
       /\ y \in Range(finalRuleIds)
       /\ Declares(x, "conflicts", y) \/ Declares(y, "conflicts", x)

\* The place of x in a list that holds it.
PositionIn(seq, x) == CHOOSE i \in 1..Len(seq) : seq[i] = x

\* `part` lists the ids of `full` that are in S, each once, in the order
\* they have in `full` (a list without repeated ids).
ListsInOrder(part, full, S) ==
  /\ Range(part) = Range(full) \cap S
  /\ Len(part) = Cardinality(Range(full) \cap S)
  /\ \A i \in 1..Len(part), j \in 1..Len(part) :
       i < j => PositionIn(full, part[i]) < PositionIn(full, part[j])

\* C13: for every rule resolveDependencies has processed that has a catalog
\* record, the ids of its `requires` that are not available are recorded in
\* its missingDependencies, in declared order; no such id is ever in an
\* addedDependencies list or pushed to the worklist; and a rule T with
\* requires = [X], X not available, yields exactly
\* [{ruleId: T, missingDependencies: [X], addedDependencies: []}].
C13_MissingDependenciesRecorded ==
  /\ \A x \in processed :
       HasRule(x) =>
         /\ Range(allRules[x].requires) \ availableRuleIds # {} =>
              \E k \in 1..Len(dependencies) : dependencies[k].ruleId = x
         /\ \A k \in 1..Len(dependencies) :
              dependencies[k].ruleId = x =>
                ListsInOrder(dependencies[k].missingDependencies,
                             allRules[x].requires, Ids \ availableRuleIds)
  /\ \A k \in 1..Len(dependencies) :
       Range(dependencies[k].addedDependencies) \subseteq availableRuleIds
  /\ \A i \in 1..Len(toProcess) :
       toProcess[i] \in availableRuleIds \cup Range(selectedRuleIds)
  /\ \A T \in Ids, X \in Ids :
       (/\ pc # "resolveDependencies"
        /\ selectedRuleIds = <<T>>
        /\ HasRule(T)
        /\ allRules[T].requires = <<X>>
        /\ X \notin availableRuleIds) =>
         dependencies = <<[ruleId |-> T, missingDependencies |-> <<X>>,
                           addedDependencies |-> <<>>]>>

\* C13 witness: resolveDependencies returned for [T], where T requires three
\* ids: two unavailable ones, recorded as missing, and an available one,
\* added.
C13_Witness ==
  /\ pc = "detectConflicts" /\ call = 1
  /\ Len(selectedRuleIds) = 1
  /\ HasRule(selectedRuleIds[1])
  /\ Len(allRules[selectedRuleIds[1]].requires) = 3
  /\ allRules[selectedRuleIds[1]].requires[2] \notin availableRuleIds
  /\ Len(dependencies) = 1
  /\ Len(dependencies[1].missingDependencies) = 2
  /\ Len(dependencies[1].addedDependencies) = 1

\* The ids of the list `ids` that some rule whose id is in `ids` lists in its
\* `supersedes`.
SupersededIn(ids) ==
  {s \in Range(ids) : \E r \in Range(ids) : Declares(r, "supersedes", s)}

\* removeSupersededRules, called directly, has returned.
RemoveSupersededReturned == entry = "removeSupersededRules" /\ pc = "done"

\* C14: removeSupersededRules returns the ids of its list that no rule of the
\* list supersedes, in their original order; of a chain A supersedes B, B
\* supersedes C (all three given) only A is kept; and when nothing is
\* superseded the list comes back unchanged.
C14_RemovesExactlySuperseded ==
  RemoveSupersededReturned =>
    /\ finalIds = SelectSeq(ruleIdsArg, LAMBDA id : id \notin SupersededIn(ruleIdsArg))
    /\ \A A \in Ids, B \in Ids, C \in Ids :
         (/\ Range(ruleIdsArg) = {A, B, C} /\ Len(ruleIdsArg) = 3
          /\ Cardinality({A, B, C}) = 3
          /\ Declares(A, "supersedes", B) /\ Declares(B, "supersedes", C)
          /\ ~Declares(C, "supersedes", A) /\ ~Declares(B, "supersedes", A)
          /\ ~Declares(A, "supersedes", A)) =>
           finalIds = <<A>>
    /\ SupersededIn(ruleIdsArg) = {} => finalIds = ruleIdsArg

\* C14 witness: the chain, given with the last rule of the chain first.
C14_Witness ==
  /\ RemoveSupersededReturned
  /\ Len(ruleIdsArg) = 3
  /\ Declares(ruleIdsArg[3], "supersedes", ruleIdsArg[2])
  /\ Declares(ruleIdsArg[2], "supersedes", ruleIdsArg[1])
  /\ Cardinality(Range(ruleIdsArg)) = 3
  /\ finalIds = <<ruleIdsArg[3]>>

\* The number of places of the list that hold x.
Occurrences(seq, x) == Cardinality({i \in 1..Len(seq) : seq[i] = x})

\* The number of returned entries {superseded: s, superseding: r}.
EntriesFor(r, s) ==
  Occurrences(superseding, [superseded |-> s, superseding |-> r])

\* r and s are in the list given and r's record lists s in `supersedes`.
DeclaredAndPresent(r, s) ==
  /\ r \in Range(ruleIdsArg)
  /\ s \in Range(ruleIdsArg)
  /\ Declares(r, "supersedes", s)

\* getSupersedingRules, called directly, has returned.
GetSupersedingReturned == entry = "getSupersedingRules" /\ pc = "done"

ListsAfter(w, prefixLen, list) ==
  /\ Len(w) = prefixLen + (IF list = <<>> THEN 0 ELSE 2 * Len(list) - 1)
  /\ \A n \in 1..Len(list) :
       /\ w[prefixLen + 2 * n - 1] = list[n]
       /\ n < Len(list) => w[prefixLen + 2 * n] = ", "

\* The selected ids that are not available, and those that are, as they
\* stand in the caller's list.
UnavailableSelected ==
  SelectSeq(ruleIdsArg, LAMBDA id : id \notin availableRuleIds)

AvailableSelected ==
  SelectSeq(ruleIdsArg, LAMBDA id : id \in availableRuleIds)

\* C16: resolveComprehensive emits exactly one "Missing rules: ..." warning,
\* listing the unavailable selected ids in input order, when there is such an
\* id and none otherwise; no such id is in finalSelections, is the ruleId or
\* an added dependency of a `dependencies` entry, or is named by a conflict;
\* the available ids are passed on in their input order.
C16_UnavailableSelectedDropped ==
  (entry = "generate" /\ pc # "validateRuleAvailability") =>
    /\ Cardinality({k \in 1..Len(warnings) : IsMissingRulesWarning(warnings[k])})
         = (IF UnavailableSelected # <<>> THEN 1 ELSE 0)
    /\ \A k \in 1..Len(warnings) :
         IsMissingRulesWarning(warnings[k]) =>
           ListsAfter(warnings[k], 1, UnavailableSelected)
    /\ selectedRuleIds = AvailableSelected
    /\ \A x \in Range(UnavailableSelected) :
         /\ \A k \in 1..Len(finalSelections) : finalSelections[k].ruleId # x
         /\ \A k \in 1..Len(dependencies) :
              /\ dependencies[k].ruleId # x
              /\ ~Includes(dependencies[k].addedDependencies, x)
         /\ \A k \in 1..Len(conflicts) :
              conflicts[k].ruleId1 # x /\ conflicts[k].ruleId2 # x

\* C16 witness: resolveComprehensive returned for an unavailable id followed
\* by an available rule that requires it: the id is warned about, is a
\* missing dependency of that rule, and is not in the final selection.
C16_Witness ==
  /\ entry = "generate" /\ pc = "generate"
  /\ Len(ruleIdsArg) = 2
  /\ UnavailableSelected = <<ruleIdsArg[1]>>
  /\ Declares(ruleIdsArg[2], "requires", ruleIdsArg[1])
  /\ Len(dependencies) = 1
  /\ Len(finalSelections) = 1
  /\ Len(warnings) = 2

\* C17: every RuleSelection of finalSelections has selected = true, and its
\* reason is "manually selected" exactly when the catalog has a record with
\* its id and "dependency" otherwise; so a rule that was only added as a
\* dependency and has a record is labelled "manually selected".
C17_ReasonByCatalogPresence ==
  ResolveComprehensiveReturned =>
    \A k \in 1..Len(finalSelections) :
      /\ finalSelections[k].selected = TRUE
      /\ finalSelections[k].reason =
           (IF HasRule(finalSelections[k].ruleId) THEN "manually selected"
            ELSE "dependency")
      /\ (finalSelections[k].ruleId \in Added /\ HasRule(finalSelections[k].ruleId))
           => finalSelections[k].reason = "manually selected"

\* C17 witness: the final selection holds a rule that was only added as a
\* dependency, labelled "manually selected", and a selected id without a
\* catalog record, labelled "dependency".
C17_Witness ==
  /\ ResolveComprehensiveReturned
  /\ \E i \in 1..Len(finalSelections), j \in 1..Len(finalSelections) :
       /\ finalSelections[i].ruleId \in Added
       /\ finalSelections[i].ruleId \notin Range(ruleIdsArg)
       /\ finalSelections[i].reason = "manually selected"
       /\ finalSelections[j].ruleId \in Range(ruleIdsArg)
       /\ finalSelections[j].reason = "dependency"

\* The places of `dependencies` whose entry has missing dependencies.
WithMissing ==
  {k \in 1..Len(dependencies) : dependencies[k].missingDependencies # <<>>}

\* The text w is "Rule '<id>' has missing dependencies: " followed by the
\* missing dependencies of the entry, in order, separated by ", ".
IsMissingDependenciesWarning(w, dep) ==
  /\ Len(w) > 3
  /\ w[1] = "Rule '"
  /\ w[2] = dep.ruleId
  /\ w[3] = "' has missing dependencies: "
  /\ ListsAfter(w, 3, dep.missingDependencies)

\* C18: the warnings resolveComprehensive returns are exactly the
\* missing-rules warning (if a selected id is unavailable) followed by one
\* missing-dependencies warning per entry of `dependencies` that has missing
\* dependencies, in the order of those entries; nothing else adds a warning.
C18_WarningsInOrder ==
  ResolveComprehensiveReturned =>
    LET m == IF UnavailableSelected # <<>> THEN 1 ELSE 0
    IN /\ Len(warnings) = m + Cardinality(WithMissing)
       /\ m = 1 => /\ IsMissingRulesWarning(warnings[1])
                   /\ ListsAfter(warnings[1], 1, UnavailableSelected)
       /\ \A k \in WithMissing :
            IsMissingDependenciesWarning(
              warnings[m + Cardinality({j \in WithMissing : j <= k})],
              dependencies[k])

\* C18 witness: an unavailable selected id, then an entry of `dependencies`
\* with an added dependency and nothing missing, then one with a missing
\* dependency: two warnings.
C18_Witness ==
  /\ ResolveComprehensiveReturned
  /\ UnavailableSelected # <<>>
  /\ Len(dependencies) = 2
  /\ dependencies[1].missingDependencies = <<>>
  /\ dependencies[2].missingDependencies # <<>>
  /\ Len(warnings) = 2

\* resolveComprehensive has just returned a result that carries the
\* anomalies of its input: a warning for unavailable selected ids, a
\* `dependencies` entry and a warning for a processed rule with unavailable
\* requirements, a conflict entry for a conflict declared between two
\* different available selected rules.
ReturnedWithAnomalies ==
  /\ pc = "generate"
  /\ UnavailableSelected # <<>> =>
       \E k \in 1..Len(warnings) : IsMissingRulesWarning(warnings[k])
  /\ \A x \in processed :
       (HasRule(x) /\ Range(allRules[x].requires) \ availableRuleIds # {}) =>
         \E k \in 1..Len(dependencies), n \in 1..Len(warnings) :
           /\ dependencies[k].ruleId = x
           /\ IsMissingDependenciesWarning(warnings[n], dependencies[k])
  /\ \A x \in Range(AvailableSelected), y \in Range(AvailableSelected) :
       (x # y /\ Declares(x, "conflicts", y)) => conflicts # <<>>

\* C19: every call of resolveComprehensive returns a result, carrying the
\* anomalies as data, whatever the selection: unknown ids, missing
\* dependencies, conflicts, supersessions, cyclic requirements, no id at all.
C19_AlwaysReturnsResult ==
  (pc = "validateRuleAvailability") ~> ReturnedWithAnomalies

\* C19 witness: resolveComprehensive returned for an unknown id and a rule
\* whose requirement requires it back.
C19_Witness ==
  /\ pc = "generate"
  /\ UnavailableSelected # <<>>
  /\ \E x \in Range(AvailableSelected), y \in Added :
       /\ x # y
       /\ Declares(x, "requires", y)
       /\ Declares(y, "requires", x)

\* C20: when the resolver reports a conflict the generate command exits
\* non-zero and neither generateRuleFiles nor generateIndexFile is ever
\* called; when it reports none, generateRuleFiles is called, once, with the
\* resolver's finalSelections, whatever warnings there are.
C20_ConflictsStopGeneration ==
  /\ conflicts # <<>> =>
       /\ generateRuleFilesArgs = <<>>
       /\ generateIndexFileArgs = <<>>
       /\ pc = "exit" => exitCode = 1
  /\ (conflicts = <<>> /\ pc \in {"generateRuleFiles", "exit"}) =>
       generateRuleFilesArgs = <<finalSelections>>
  /\ generateIndexFileArgs # <<>> => generateRuleFilesArgs # <<>>
  /\ pc # "exit" => exitCode = "running"

\* C20 witness: the command generated the files of a resolution that came
\* with a missing-rules warning and a missing-dependencies warning, and has
\* exited with status 0.
C20_Witness ==
  /\ pc = "exit" /\ exitCode = 0
  /\ conflicts = <<>>
  /\ Len(warnings) = 2
  /\ finalSelections # <<>>
  /\ generateRuleFilesArgs = <<finalSelections>>
  /\ generateIndexFileArgs = <<finalSelections>>

\* Rule x has a record and nothing to report when it is taken from the
\* worklist: every id it requires is available and is either in the list
\* given or already processed (x itself counts as processed).
NothingToReport(x) ==
  /\ HasRule(x)
  /\ \A r \in Range(allRules[x].requires) :
       /\ r \in availableRuleIds
       /\ r \in Range(selectedRuleIds) \cup processed \cup {x}

\* C24: every DependencyInfo has an id in missingDependencies or in
\* addedDependencies; an empty selection gives an empty result; and the step
\* that processes a rule with nothing to report (no `requires`, or every
\* required id available and already selected or processed) pushes no entry.
C24_EntriesCarryFindings ==
  /\ [](/\ \A k \in 1..Len(dependencies) :
             \/ dependencies[k].missingDependencies # <<>>
             \/ dependencies[k].addedDependencies # <<>>
        /\ selectedRuleIds = <<>> => dependencies = <<>>)
  /\ [][(/\ pc = "resolveDependencies"
         /\ toProcess # <<>>
         /\ NothingToReport(Head(toProcess))) =>
          dependencies' = dependencies]_vars

\* C24 witness: resolveDependencies returned an entry, and processed without
\* an entry a rule whose only requirement was already processed.
C24_Witness ==
  /\ pc = "detectConflicts"
  /\ dependencies # <<>>
  /\ \E x \in processed :
       /\ HasRule(x)
       /\ Len(allRules[x].requires) = 1
       /\ allRules[x].requires[1] \notin Range(selectedRuleIds)
       /\ NothingToReport(x)
       /\ \A k \in 1..Len(dependencies) : dependencies[k].ruleId # x

\* The ids at most n `requires` steps away from the list given, along the
\* steps resolveDependencies can take (from a rule with a record to an
\* available id).
RECURSIVE Within(_)
Within(n) == IF n = 0 THEN Range(selectedRuleIds) ELSE RequiredBy(Within(n - 1))

\* The number of steps x is away from the list given (x being reachable).
StepsAway(x) == CHOOSE n \in 0..Cardinality(Ids) :
                  /\ x \in Within(n)
                  /\ \A m \in 0..Cardinality(Ids) : m < n => x \notin Within(m)

\* `part` is `full` with some entries left out, the others in their order
\* (`full` being a list without repeated ids).
KeepsOrderOf(part, full) ==
  /\ Range(part) \subseteq Range(full)
  /\ \A i \in 1..Len(part), j \in 1..Len(part) :
       i < j => PositionIn(full, part[i]) < PositionIn(full, part[j])

\* C25: the entries of `dependencies` are in breadth-first order: an entry
\* whose rule is fewer `requires` steps away from the list given never comes
\* after one whose rule is more steps away; and the addedDependencies and
\* missingDependencies of each entry keep the order of the `requires` list.
C25_BreadthFirstOrder ==
  /\ \A i \in 1..Len(dependencies), j \in 1..Len(dependencies) :
       i < j => StepsAway(dependencies[i].ruleId) <= StepsAway(dependencies[j].ruleId)
  /\ \A k \in 1..Len(dependencies) :
       /\ KeepsOrderOf(dependencies[k].addedDependencies,
                       allRules[dependencies[k].ruleId].requires)
       /\ KeepsOrderOf(dependencies[k].missingDependencies,
                       allRules[dependencies[k].ruleId].requires)

\* C25 witness: two rules were given; the first added a dependency, and the
\* entry of that dependency comes after the entry of the second rule given.
C25_Witness ==
  /\ pc = "detectConflicts"
  /\ Len(selectedRuleIds) = 2
  /\ Len(dependencies) = 3
  /\ dependencies[1].ruleId = selectedRuleIds[1]
  /\ dependencies[2].ruleId = selectedRuleIds[2]
  /\ Includes(dependencies[1].addedDependencies, dependencies[3].ruleId)

\* C26, as claimed: when a selected id is available, the finalSelections
\* resolveComprehensive returns is not empty.
C26_FinalSelectionsNonEmpty ==
  (ResolveComprehensiveReturned /\ AvailableSelected # <<>>) =>
    finalSelections # <<>>

\* The ids the returned `superseding` list names as superseded.
NamedSuperseded == {superseding[k].superseded : k \in 1..Len(superseding)}

\* C27: for every rule of finalSelections that has a record, each available
\* id of its `requires` is in finalSelections or is named as superseded in
\* the returned `superseding` list.
C27_ClosedUpToSupersession ==
  ResolveComprehensiveReturned =>
    LET final == {finalSelections[k].ruleId : k \in 1..Len(finalSelections)}
    IN \A x \in final :
         HasRule(x) =>
           \A r \in Range(allRules[x].requires) \cap availableRuleIds :
             r \in final \/ r \in NamedSuperseded

\* C27 witness: a rule of the final selection requires an available rule that
\* was added as its dependency and then removed, superseded by that rule.
C27_Witness ==
  /\ ResolveComprehensiveReturned
  /\ \E k \in 1..Len(finalSelections), r \in Added :
       /\ Declares(finalSelections[k].ruleId, "requires", r)
       /\ Declares(finalSelections[k].ruleId, "supersedes", r)
       /\ r \in NamedSuperseded
       /\ \A n \in 1..Len(finalSelections) : finalSelections[n].ruleId # r


\* ------------------------------------------------------------------ wizard

\* The rule ids of a list of selections.
RuleIdsOf(selections) == {selections[i].ruleId : i \in 1..Len(selections)}

\* `selections` without the entries for `ruleId`, the others in their order.
WithoutRule(selections, ruleId) ==
  SelectSeq(selections, LAMBDA s : s.ruleId # ruleId)

\* C21: in the wizard's conflict loop, the answer "exclude1" removes from the
\* wizard's finalSelections the entry for the conflict's ruleId1 (if there is
\* one) and nothing else, "exclude2" the entry for ruleId2 and nothing else,
\* "ignore" removes nothing; the resolution's dependencies, conflicts and
\* finalSelections are left as the resolver returned them.
C21_AnswerRemovesOnlyItsRule ==
  [][pc = "createConflictResolutionPrompt" =>
       LET conflict == conflicts[Len(answers) + 1]
           choice   == answers'[Len(answers')]
       IN /\ Len(answers') = Len(answers) + 1
          /\ choice = "exclude1" =>
               localSelections' = WithoutRule(localSelections, conflict.ruleId1)
          /\ choice = "exclude2" =>
               localSelections' = WithoutRule(localSelections, conflict.ruleId2)
          /\ choice = "ignore" => localSelections' = localSelections
          /\ dependencies' = dependencies
          /\ conflicts' = conflicts
          /\ finalSelections' = finalSelections]_vars

\* The user answered "exclude1" to a conflict between two different rules of
\* a resolution with dependencies: the first rule is gone, the second stays.
C21_Witness ==
  /\ entry = "runWizard"
  /\ dependencies # <<>>
  /\ \E i \in 1..Len(answers) :
       /\ answers[i] = "exclude1"
       /\ conflicts[i].ruleId1 # conflicts[i].ruleId2
       /\ conflicts[i].ruleId1 \in RuleIdsOf(finalSelections)
       /\ conflicts[i].ruleId1 \notin RuleIdsOf(localSelections)
       /\ conflicts[i].ruleId2 \in RuleIdsOf(localSelections)

\* runWizard has returned { success: true, ... }.
WizardSucceeded == pc = "returned" /\ wizardResult.success

\* C22: when the user declines minification (createMinificationPrompt would
\* answer false), the wizard shows neither the minification mode prompt nor
\* the field selection prompt, and a run that generates calls
\* generateRuleFiles exactly once, with normalizeOptions { minify: false }.
C22_DeclinedMinificationSkipsPrompts ==
  (entry = "runWizard" /\ minify = FALSE) =>
    /\ ~Includes(wizardLog, "createMinificationModePrompt")
    /\ ~Includes(wizardLog, "createFieldSelectionPrompt")
    /\ WizardSucceeded => generateRuleFilesOptions = <<[minify |-> FALSE]>>

\* C28: when the wizard reaches generation, it has asked exactly one question
\* per ConflictInfo of the resolution, and if no answer was "ignore", then of
\* every ConflictInfo at least one of ruleId1 and ruleId2 has no entry in the
\* finalSelections passed to generateRuleFiles.
C28_AnsweredConflictsAreSeparated ==
  (entry = "runWizard" /\ generateRuleFilesArgs # <<>>) =>
    /\ Occurrences(wizardLog, "createConflictResolutionPrompt") = Len(conflicts)
    /\ Len(answers) = Len(conflicts)
    /\ (\A i \in 1..Len(answers) : answers[i] # "ignore") =>
         \A k \in 1..Len(conflicts) :
           \/ conflicts[k].ruleId1 \notin RuleIdsOf(generateRuleFilesArgs[1])
           \/ conflicts[k].ruleId2 \notin RuleIdsOf(generateRuleFilesArgs[1])

\* The wizard generated after two conflict questions, neither answered
\* "ignore", and a rule is left to generate.
C28_Witness ==
  /\ entry = "runWizard"
  /\ generateRuleFilesArgs # <<>>
  /\ Len(conflicts) = 2
  /\ \A i \in 1..Len(answers) : answers[i] # "ignore"
  /\ generateRuleFilesArgs[1] # <<>>
  /\ \E k \in 1..2 : conflicts[k].ruleId1 \in RuleIdsOf(generateRuleFilesArgs[1])

\* The places of the wizard's log that hold `name`.
Places(name) == {i \in 1..Len(wizardLog) : wizardLog[i] = name}

\* `first` is in the log, and every place of it is before every place of `next`.
LoggedBefore(first, next) ==
  /\ Places(first) # {}
  /\ \A i \in Places(first), j \in Places(next) : i < j

\* The user refused a prompt or answered one with an empty choice.
UserDeclined == Includes(wizardLog, "refused") \/ Includes(wizardLog, "empty")

\* C29: generateRuleFiles is invoked only after, in this order, the welcome
\* prompt, the category prompt, the rule prompts (with at least one rule
\* chosen), the resolution, the review prompt and the generation
\* confirmation, none of them refused or answered empty; and once a prompt was
\* refused or answered empty the run has ended with success = false and
\* neither generateRuleFiles nor generateIndexFile was invoked.
C29_GenerationOnlyAfterEveryStep ==
  entry = "runWizard" =>
    /\ (generateRuleFilesArgs # <<>>) <=> Includes(wizardLog, "generateRuleFiles")
    /\ (generateIndexFileArgs # <<>>) <=> Includes(wizardLog, "generateIndexFile")
    /\ Includes(wizardLog, "generateRuleFiles") =>
         /\ LoggedBefore("createWelcomePrompt", "createCategorySelectionPrompt")
         /\ LoggedBefore("createCategorySelectionPrompt", "createRuleSelectionPrompt")
         /\ LoggedBefore("createRuleSelectionPrompt", "resolveComprehensive")
         /\ LoggedBefore("resolveComprehensive", "createReviewPrompt")
         /\ LoggedBefore("createReviewPrompt", "createGenerationConfirmationPrompt")
         /\ LoggedBefore("createGenerationConfirmationPrompt", "generateRuleFiles")
         /\ wizardRuleIds # <<>>
         /\ ~UserDeclined
    /\ UserDeclined =>
         /\ pc = "returned"
         /\ ~wizardResult.success
         /\ generateRuleFilesArgs = <<>>
         /\ generateIndexFileArgs = <<>>

\* A run over two categories that generated the rule files and the index.
C29_Witness ==
  /\ WizardSucceeded
  /\ Cardinality(Places("createRuleSelectionPrompt")) = 2
  /\ Len(generateRuleFilesArgs) = 1
  /\ Len(generateIndexFileArgs) = 1


\* -------------------------------------------------------------- rule cache

\* C30: between two calls of clearRulesCache, the rules directory of a path
\* is read from disk at most once by loadAllRules, however the loadAllRules
\* calls for that path interleave (counting only the reads that succeeded: a
\* failed read stores nothing and is followed by another).
C30_DirectoryReadOncePerClear ==
  entry = "loadAllRules" => \A path \in Paths : reads[path] <= 1


\* ------------------------------------------ resolveComprehensive, two calls

=============================================================================
